---- MODULE Spec2Model ----
(***************************************************************************)
(* A model of the simulation-to-result pipeline of llm-vote-simulation:    *)
(* the ensemble voter of core/simulation_logic.py, the vote mapping,       *)
(* aggregation, comparison and blending of core/data_processing.py, and    *)
(* the three pages that call them on the tables of the session.            *)
(*                                                                         *)
(* Python strings are sequences of tokens. A token is one character        *)
(* ("1", " ", "x", "O", "h", ...) or one of the fixed words the code       *)
(* tests for or produces ("Error_API_Call", "Undecided", ...), standing    *)
(* for the characters of that word.                                        *)
(***************************************************************************)
EXTENDS Integers, Sequences, FiniteSets, TLC

VARIABLES
    \* ---- run_repeated_simulations (one call) ----
    client,        \* TRUE iff the oracle handle passed in is usable (truthy)
    repetitions,   \* the argument R
    pc,            \* "entry", "loop", "returned", "raised" ("idle" elsewhere)
    responses,     \* history of the values get_voting_response returned
    raw_votes,     \* the local list raw_votes
    result,        \* the value returned
    calls,         \* number of client.chat.completions.create calls made
    \* ---- the tables of the data_processing pipeline ----
    done,                              \* the tables computed so far
    simulated_profiles_with_votes_df,  \* profiles with their Vote column
    processed_df,                      \* its copy, given to the two functions
    real_election_data_df,             \* the historical table
    aggregated_results_df,             \* of aggregate_results_by_state
    comparison_df,                     \* of compare_simulated_with_real
    adjusted_results_df,               \* of adjust_simulated_results
    last_simulation_weight,            \* <<w>>: weight of the last adjustment
    \* ---- one direct call of a data_processing function ----
    call,          \* name of the function called ("none" before the call)
    args_before,   \* the tables passed in, as they are when passed
    args_after,    \* the same objects when the call is over
    returned,      \* the value returned
    \* ---- 1_Simulation_Configuration.py ----
    api_key,               \* TRUE iff st.secrets holds a non-empty OPENAI_API_KEY
    voter_profiles_df,     \* the loaded profiles (<<>>: None)
    run_pc,                \* "idle", "running", "aborted": the Run handler
    profiles_to_simulate,  \* its local table, with the Prompt column
    batch_votes,           \* its local list votes
    errors,                \* the st.error messages of the last handler
    \* ---- 3_Data_Comparison.py, its last rendering ----
    simulation_weight,     \* the value of the slider, in tenths
    calculate_pressed      \* the value of the button

vars == <<client, repetitions, pc, responses, raw_votes, result, calls,
          done, simulated_profiles_with_votes_df, processed_df,
          real_election_data_df, aggregated_results_df, comparison_df,
          adjusted_results_df, last_simulation_weight,
          call, args_before, args_after, returned,
          api_key, voter_profiles_df, run_pc, profiles_to_simulate,
          batch_votes, errors, simulation_weight, calculate_pressed>>

callVars == <<call, args_before, args_after, returned>>
widgetVars == <<simulation_weight, calculate_pressed>>
pageVars == <<api_key, voter_profiles_df, run_pc, profiles_to_simulate,
              batch_votes>>

ensembleVars == <<client, repetitions, pc, responses, raw_votes, result, calls>>
pipelineVars == <<done, simulated_profiles_with_votes_df, processed_df,
                  real_election_data_df, aggregated_results_df, comparison_df,
                  adjusted_results_df, last_simulation_weight>>

(***************************************************************************)
(* Bounds                                                                  *)
(***************************************************************************)
MaxReps == 3        \* largest repetition count explored
MaxProfiles == 2    \* largest number of voter records explored
MaxSessionProfiles == 1   \* the same where a session of several runs is explored

(***************************************************************************)
(* Strings                                                                 *)
(***************************************************************************)
WhiteSpace == {" ", "\n"}

RECURSIVE LStrip(_)
LStrip(s) ==
    IF s # <<>> /\ Head(s) \in WhiteSpace THEN LStrip(Tail(s)) ELSE s

RECURSIVE RStrip(_)
RStrip(s) ==
    IF s # <<>> /\ s[Len(s)] \in WhiteSpace
    THEN RStrip(SubSeq(s, 1, Len(s) - 1))
    ELSE s

\* str.strip()
Strip(s) == RStrip(LStrip(s))

\* s[:1]
FirstChar(s) == IF s = <<>> THEN <<>> ELSE <<Head(s)>>

\* word in s, for one of the fixed words
Contains(s, word) == \E k \in DOMAIN s : s[k] = word

(***************************************************************************)
(* core/simulation_logic.py                                                *)
(***************************************************************************)
\* get_openai_client that returns a handle whatever the secrets hold
get_openai_client_unchecked(key) == TRUE

\* Lines 5-11: get_openai_client, for `key` TRUE iff st.secrets holds a
\* non-empty OPENAI_API_KEY: TRUE for a client object, FALSE for None.
get_openai_client(key) == key

\* Line 9: the st.error of get_openai_client
ClientErrors(key) ==
    IF ~key THEN {"OpenAI API key not found in .streamlit/secrets.toml."}
    ELSE {}

\* A value of get_voting_response: a string, or None (message.content of a
\* completion that carries no text).
Str(t) == [none |-> FALSE, text |-> t]
None == [none |-> TRUE, text |-> <<>>]

ErrClient == <<"Error_Client_Not_Initialized">>
Undecided == <<"Undecided">>

\* Texts the oracle may answer with.
Contents ==
    { <<"1">>, <<"2">>, <<" ", "1">>, <<"2", "\n">>, <<"1", "2">>,
      <<"x">>, <<>>, <<" ">>, <<"x", "1">>,
      <<"1", " ", "Error_API_Call">>, <<"2", "Error_Client_Not_Initialized">> }

\* str(e) of an exception raised by the call.
ExcMessages == { <<>>, <<"x">> }

\* What one client.chat.completions.create call can do.
ApiOutcomes ==
    [kind : {"content"}, value : {Str(t) : t \in Contents} \cup {None}]
    \cup [kind : {"exception"}, value : {Str(m) : m \in ExcMessages}]

get_voting_response(cl, outcome) ==
    IF ~cl THEN Str(ErrClient)
    ELSE IF outcome.kind = "content" THEN outcome.value
    ELSE Str(<<"Error_API_Call", ":", " ">> \o outcome.value.text)

\* LoopBody that takes the first character without stripping the text
LoopBodyNoStrip(raw, response) ==
    IF response.none THEN [raised |-> TRUE, raw |-> raw]
    ELSE IF Contains(response.text, "Error_API_Call")
            \/ Contains(response.text, "Error_Client_Not_Initialized")
    THEN [raised |-> FALSE, raw |-> raw]
    ELSE [raised |-> FALSE,
          raw |-> Append(raw, FirstChar(response.text))]

\* Lines 60-65: one pass of the loop body on the value `response`.
\* "..." in None raises TypeError.
LoopBody(raw, response) ==
    IF response.none THEN [raised |-> TRUE, raw |-> raw]
    ELSE IF Contains(response.text, "Error_API_Call")
            \/ Contains(response.text, "Error_Client_Not_Initialized")
    THEN [raised |-> FALSE, raw |-> raw]
    ELSE [raised |-> FALSE,
          raw |-> Append(raw, FirstChar(Strip(response.text)))]

\* int(v) for v in ["1", "2"]
IntOf(v) == IF v = <<"1">> THEN 1 ELSE 2

\* [int(v) for v in raw_votes if v in ["1", "2"]]
IntVotes(raw) ==
    LET keep == SelectSeq(raw, LAMBDA v : v \in {<<"1">>, <<"2">>})
    IN  [k \in DOMAIN keep |-> IntOf(keep[k])]

SeqMax(s) == CHOOSE m \in {s[k] : k \in DOMAIN s} : \A k \in DOMAIN s : s[k] <= m

\* np.bincount of a non-empty list of non-negative integers
Bincount(s) ==
    [n \in 0..SeqMax(s) |-> Cardinality({k \in DOMAIN s : s[k] = n})]

\* Reduce with the tie broken by the first valid vote collected instead of
\* the fixed "1".
ReduceTieFirstVote(raw) ==
    LET int_votes == IntVotes(raw) IN
    IF int_votes = <<>> THEN Undecided
    ELSE LET count_1 == Cardinality({k \in DOMAIN int_votes : int_votes[k] = 1})
             count_2 == Cardinality({k \in DOMAIN int_votes : int_votes[k] = 2})
         IN  IF count_1 > count_2 THEN <<"1">>
             ELSE IF count_2 > count_1 THEN <<"2">>
             ELSE IF int_votes[1] = 1 THEN <<"1">> ELSE <<"2">>

\* Lines 67-90
Reduce(raw) ==
    LET int_votes == IntVotes(raw) IN
    IF int_votes = <<>> THEN Undecided
    ELSE LET counts == Bincount(int_votes)
             len == Cardinality(DOMAIN counts)
             count_1 == IF len > 1 THEN counts[1] ELSE 0
             count_2 == IF len > 2 THEN counts[2] ELSE 0
         IN  IF count_1 > count_2 THEN <<"1">>
             ELSE IF count_2 > count_1 THEN <<"2">>
             ELSE IF count_1 = count_2 /\ count_1 > 0 THEN <<"1">>
             ELSE Undecided

\* Lines 58-90 as a function of the values get_voting_response returns, in
\* call order: the loop stops at the first value that makes line 61 raise.
RECURSIVE RunLoop(_, _, _)
RunLoop(raw, resps, k) ==
    IF k > Len(resps) THEN [pc |-> "returned", result |-> Reduce(raw)]
    ELSE LET body == LoopBody(raw, resps[k])
         IN  IF body.raised THEN [pc |-> "raised", result |-> <<>>]
             ELSE RunLoop(body.raw, resps, k + 1)

\* run_repeated_simulations(prompt, client, repetitions = Len(resps))
run_repeated_simulations(cl, resps) ==
    IF ~cl THEN [pc |-> "returned", result |-> ErrClient]
    ELSE RunLoop(<<>>, resps, 1)

\* Lines 55-56: no usable client
ClientMissing ==
    /\ pc = "entry"
    /\ ~client
    /\ result' = ErrClient
    /\ pc' = "returned"
    /\ UNCHANGED <<client, repetitions, responses, raw_votes, calls>>
    /\ UNCHANGED pipelineVars
    /\ UNCHANGED <<callVars, pageVars, errors>>
    /\ UNCHANGED widgetVars

\* Line 58
BeginLoop ==
    /\ pc = "entry"
    /\ client
    /\ raw_votes' = <<>>
    /\ pc' = "loop"
    /\ UNCHANGED <<client, repetitions, responses, result, calls>>
    /\ UNCHANGED pipelineVars
    /\ UNCHANGED <<callVars, pageVars, errors>>
    /\ UNCHANGED widgetVars

\* Lines 59-65: one iteration, the oracle call included
Iterate ==
    /\ pc = "loop"
    /\ Len(responses) < repetitions
    /\ \E outcome \in ApiOutcomes :
         LET response == get_voting_response(client, outcome)
             body == LoopBody(raw_votes, response)
         IN  /\ responses' = Append(responses, response)
             /\ calls' = calls + 1
             /\ raw_votes' = body.raw
             /\ pc' = IF body.raised THEN "raised" ELSE "loop"
    /\ UNCHANGED <<client, repetitions, result>>
    /\ UNCHANGED pipelineVars
    /\ UNCHANGED <<callVars, pageVars, errors>>
    /\ UNCHANGED widgetVars

\* Lines 67-90, after the last iteration
Return ==
    /\ pc = "loop"
    /\ Len(responses) = repetitions
    /\ result' = Reduce(raw_votes)
    /\ pc' = "returned"
    /\ UNCHANGED <<client, repetitions, responses, raw_votes, calls>>
    /\ UNCHANGED pipelineVars
    /\ UNCHANGED <<callVars, pageVars, errors>>
    /\ UNCHANGED widgetVars

(***************************************************************************)
(* core/data_processing.py                                                 *)
(*                                                                         *)
(* A table is a function from its index keys, or a sequence of rows for    *)
(* the positionally indexed profiles table. Percentages are exact          *)
(* rationals [n, d] (n/d); the historical ones are given in tenths.        *)
(***************************************************************************)
LowerLetters == <<"a", "b", "c", "d", "e", "f", "g", "h", "i", "j", "k", "l", "m", "n", "o", "p", "q", "r", "s", "t", "u", "v", "w", "x", "y", "z">>
UpperLetters == <<"A", "B", "C", "D", "E", "F", "G", "H", "I", "J", "K", "L", "M", "N", "O", "P", "Q", "R", "S", "T", "U", "V", "W", "X", "Y", "Z">>

UpperOf ==
    [c \in {LowerLetters[k] : k \in DOMAIN LowerLetters} |->
        UpperLetters[CHOOSE k \in DOMAIN LowerLetters : LowerLetters[k] = c]]

\* str.upper() on one character
UpperChar(c) == IF c \in DOMAIN UpperOf THEN UpperOf[c] ELSE c

\* str.upper()
Upper(s) == [k \in DOMAIN s |-> UpperChar(s[k])]

\* The rows of load_real_election_data: STATE, Democrat_real_percent and
\* Republican_real_percent (in tenths of a percent), Winner_real, Block.
RealRows ==
    {
       <<<<"C", "A", "L", "I", "F", "O", "R", "N", "I", "A">>,
         635, 343, "Democrat", "solidly Democratic">>,
       <<<<"T", "E", "X", "A", "S">>,
         465, 521, "Republican", "solidly Republican">>,
       <<<<"N", "E", "W", " ", "Y", "O", "R", "K">>,
         609, 377, "Democrat", "solidly Democratic">>,
       <<<<"F", "L", "O", "R", "I", "D", "A">>,
         479, 512, "Republican", "swing state">>,
       <<<<"O", "H", "I", "O">>,
         452, 533, "Republican", "swing state">>,
       <<<<"P", "E", "N", "N", "S", "Y", "L", "V", "A", "N", "I", "A">>,
         500, 488, "Democrat", "swing state">>,
       <<<<"I", "L", "L", "I", "N", "O", "I", "S">>,
         579, 406, "Democrat", "solidly Democratic">>,
       <<<<"M", "I", "C", "H", "I", "G", "A", "N">>,
         506, 478, "Democrat", "swing state">>,
       <<<<"G", "E", "O", "R", "G", "I", "A">>,
         495, 493, "Democrat", "swing state">>,
       <<<<"A", "R", "I", "Z", "O", "N", "A">>,
         494, 491, "Democrat", "swing state">>
    }

\* load_real_election_data(): the table indexed by STATE
load_real_election_data ==
    [st \in {r[1] : r \in RealRows} |->
        LET r == CHOOSE x \in RealRows : x[1] = st
        IN  [Democrat_real_percent |-> r[2],
             Republican_real_percent |-> r[3],
             Winner_real |-> r[4],
             Block |-> r[5]]]

\* VoteMap with the error sentinel passed through instead of defaulted
VoteMapKeepsSentinel(x) ==
    IF Strip(x) = <<"1">> THEN "Democrat"
    ELSE IF Strip(x) = <<"2">> THEN "Republican"
    ELSE IF Strip(x) = ErrClient THEN "Error_Client_Not_Initialized"
    ELSE "Undecided"

\* vote_map.get(x.strip(), "Undecided")
VoteMap(x) ==
    IF Strip(x) = <<"1">> THEN "Democrat"
    ELSE IF Strip(x) = <<"2">> THEN "Republican"
    ELSE "Undecided"

\* df.columns of a table of rows
Columns(df) == DOMAIN df[1]

\* row[column] = value
WithColumn(row, column, value) ==
    [c \in DOMAIN row \cup {column} |-> IF c = column THEN value ELSE row[c]]

\* Lines 63-64: the st.error of process_simulated_votes
ProcessErrors(df) ==
    IF "Vote" \notin Columns(df) THEN {"'Vote' column not found in profiles"}
    ELSE {}

\* process_simulated_votes: the table as it is when it has no Vote column,
\* else its rows with the Vote_Party column set
process_simulated_votes(df) ==
    IF "Vote" \notin Columns(df) THEN df
    ELSE [k \in DOMAIN df |->
             WithColumn(df[k], "Vote_Party", VoteMap(df[k].Vote))]

\* UpperStates with the STATE column left as spelled
UpperStatesSkipped(df) == df

\* Line 83: the STATE column uppercased (in the table passed in)
UpperStates(df) ==
    [k \in DOMAIN df |-> WithColumn(df[k], "STATE", Upper(df[k].STATE))]

\* GroupCounts that keeps, for each state, only the last row of the state
GroupCountsLastOnly(df) ==
    LET index == {df[k].STATE : k \in DOMAIN df}
        columns == {df[k].Vote_Party : k \in DOMAIN df}
        last(st) == CHOOSE k \in DOMAIN df :
                        /\ df[k].STATE = st
                        /\ \A j \in DOMAIN df : df[j].STATE = st => j <= k
    IN  [st \in index |->
            [p \in columns |-> IF df[last(st)].Vote_Party = p THEN 1 ELSE 0]]

\* Line 86: groupby('STATE')['Vote_Party'].value_counts().unstack().fillna(0):
\* one row per state, one column per party that occurs in the table, each
\* cell the number of rows of that state and party, 0 where there is none.
GroupCounts(df) ==
    LET index == {df[k].STATE : k \in DOMAIN df}
        columns == {df[k].Vote_Party : k \in DOMAIN df}
    IN  [st \in index |->
            [p \in columns |->
                Cardinality({k \in DOMAIN df :
                                df[k].STATE = st /\ df[k].Vote_Party = p})]]

\* Lines 89-91: a party column that is missing is added, filled with 0
WithPartyColumns(t) ==
    [st \in DOMAIN t |->
        [p \in DOMAIN t[st] \cup {"Democrat", "Republican", "Undecided"} |->
            IF p \in DOMAIN t[st] THEN t[st][p] ELSE 0]]

\* Line 96: idxmax(axis=1) over the columns Democrat, Republican, in that
\* order: the first column that holds the maximum
IdxMax(row) ==
    IF row["Democrat"] >= row["Republican"] THEN "Democrat" ELSE "Republican"

\* WinnerSimulated without the tie override of lines 100-101
WinnerSimulatedNoTie(row) == IdxMax(row)

\* Lines 96-101: the winner of one row
WinnerSimulated(row) ==
    IF row["Democrat"] = row["Republican"] THEN "Tie" ELSE IdxMax(row)

\* Line 77: a column that the aggregation needs is missing
MissingColumns(df) ==
    "Vote_Party" \notin Columns(df) \/ "STATE" \notin Columns(df)

\* AggregateErrors that shows no message
AggregateErrorsSilent(df) == {}

\* Line 78: the st.error of aggregate_results_by_state
AggregateErrors(df) ==
    IF MissingColumns(df)
    THEN {"Required columns for aggregation (STATE, Vote_Party) are missing."}
    ELSE {}

\* Line 80: pd.DataFrame(columns = [...]), a table without rows
EmptyResults == <<>>

\* aggregate_results_by_state
aggregate_results_by_state(df) ==
    IF MissingColumns(df) THEN EmptyResults
    ELSE
    LET results_by_state == WithPartyColumns(GroupCounts(UpperStates(df)))
    IN  [st \in DOMAIN results_by_state |->
            [Democrat |-> results_by_state[st]["Democrat"],
             Republican |-> results_by_state[st]["Republican"],
             Undecided |-> results_by_state[st]["Undecided"],
             Winner_simulated |-> WinnerSimulated(results_by_state[st])]]

\* The table passed to aggregate_results_by_state when the call is over:
\* line 83 assigns its STATE column.
aggregate_arg_after(df) ==
    IF MissingColumns(df) THEN df ELSE UpperStates(df)

\* index.str.upper() on the index of a table
UpperIndex(t) ==
    [st \in {Upper(k) : k \in DOMAIN t} |->
        t[CHOOSE k \in DOMAIN t : Upper(k) = st]]

\* LeftMerge as an inner join: only the keys that both tables have
InnerMerge(left, right) ==
    [st \in DOMAIN left \cap DOMAIN right |->
        [Democrat |-> left[st].Democrat,
         Republican |-> left[st].Republican,
         Undecided |-> left[st].Undecided,
         Winner_simulated |-> left[st].Winner_simulated,
         Democrat_real_percent |-> <<right[st].Democrat_real_percent>>,
         Republican_real_percent |-> <<right[st].Republican_real_percent>>,
         Winner_real |-> right[st].Winner_real,
         Block |-> right[st].Block]]

\* A missing (NaN) cell of a float column is <<>>, a present one <<v>>; a
\* missing cell of a string column is "NaN".
\* Lines 114-120: the left merge on the two indexes. The two tables share no
\* column name, so no suffix is applied.
LeftMerge(left, right) ==
    [st \in DOMAIN left |->
        [Democrat |-> left[st].Democrat,
         Republican |-> left[st].Republican,
         Undecided |-> left[st].Undecided,
         Winner_simulated |-> left[st].Winner_simulated,
         Democrat_real_percent |->
             IF st \in DOMAIN right THEN <<right[st].Democrat_real_percent>> ELSE <<>>,
         Republican_real_percent |->
             IF st \in DOMAIN right THEN <<right[st].Republican_real_percent>> ELSE <<>>,
         Winner_real |-> IF st \in DOMAIN right THEN right[st].Winner_real ELSE "NaN",
         Block |-> IF st \in DOMAIN right THEN right[st].Block ELSE "NaN"]]

\* FillNa that leaves the missing cell as it is
FillNaSkipped(v, value) == v

\* Series.fillna(value) on a string column
FillNa(v, value) == IF v = "NaN" THEN value ELSE v

\* CorrectPrediction with the two tests joined by "or"
CorrectPredictionEither(winner_simulated, winner_real) ==
    (winner_simulated = winner_real) \/ (winner_real # "No Real Data")

\* Lines 130-133: the Correct_Prediction column
CorrectPrediction(winner_simulated, winner_real) ==
    (winner_simulated = winner_real) /\ (winner_real # "No Real Data")

\* compare_simulated_with_real
compare_simulated_with_real(simulated_results_df, real_results_df) ==
    LET merged == LeftMerge(UpperIndex(simulated_results_df),
                            UpperIndex(real_results_df))
    IN  [st \in DOMAIN merged |->
            LET winner_real == FillNa(merged[st].Winner_real, "No Real Data")
            IN  [Democrat |-> merged[st].Democrat,
                 Republican |-> merged[st].Republican,
                 Undecided |-> merged[st].Undecided,
                 Winner_simulated |-> merged[st].Winner_simulated,
                 Democrat_real_percent |-> merged[st].Democrat_real_percent,
                 Republican_real_percent |-> merged[st].Republican_real_percent,
                 Winner_real |-> winner_real,
                 Block |-> FillNa(merged[st].Block, "Unknown Block"),
                 Correct_Prediction |->
                     CorrectPrediction(merged[st].Winner_simulated, winner_real)]]

\* Lines 111-112: the two tables passed to compare_simulated_with_real when
\* the call is over; each has its index assigned.
compare_args_after(simulated_results_df, real_results_df) ==
    <<UpperIndex(simulated_results_df), UpperIndex(real_results_df)>>

\* Exact rationals
Rat(n, d) == [n |-> n, d |-> d]
RAdd(a, b) == Rat(a.n * b.d + b.n * a.d, a.d * b.d)
RMul(a, b) == Rat(a.n * b.n, a.d * b.d)
REq(a, b) == a.n * b.d = b.n * a.d
RGt(a, b) == a.n * b.d > b.n * a.d

\* The historical percentages are written with one decimal.
PctDen == 10
\* The weight slider moves in steps of one tenth between 0.0 and 1.0.
WeightSteps == 10

Weights == 0..WeightSteps
\* The slider starts at 0.8.
WeightDefault == 8

\* SimPct without the guard on total
SimPctUnguarded(votes, total) == Rat(votes * 100, total)

\* Lines 153-154: the simulated share of `votes` among `total` votes
SimPct(votes, total) ==
    IF total > 0 THEN Rat(votes * 100, total) ELSE Rat(0, 1)

\* Blend with the two weights exchanged
BlendSwapped(w, sim, real) ==
    RAdd(RMul(Rat(WeightSteps - w, WeightSteps), sim),
         RMul(Rat(w, WeightSteps), real))

\* Lines 160-161: (simulation_weight * sim) + ((1 - simulation_weight) * real)
Blend(w, sim, real) ==
    RAdd(RMul(Rat(w, WeightSteps), sim),
         RMul(Rat(WeightSteps - w, WeightSteps), real))

\* WinnerAdjusted without the tie test of lines 168-169
WinnerAdjustedNoTie(adj_dem_pct, adj_rep_pct) ==
    IF RGt(adj_dem_pct, adj_rep_pct) THEN "Democrat" ELSE "Republican"

\* Lines 167-169
WinnerAdjusted(adj_dem_pct, adj_rep_pct) ==
    LET winner == IF RGt(adj_dem_pct, adj_rep_pct) THEN "Democrat"
                  ELSE "Republican"
    IN  IF REq(adj_dem_pct, adj_rep_pct) THEN "Tie" ELSE winner

\* Lines 147-175: the row of state_name
AdjustedRow(simulated_df, real_df, state_name, w) ==
    LET sim_dem_votes == simulated_df[state_name].Democrat
        sim_rep_votes == simulated_df[state_name].Republican
        total_sim_votes == sim_dem_votes + sim_rep_votes
        sim_dem_pct == SimPct(sim_dem_votes, total_sim_votes)
        sim_rep_pct == SimPct(sim_rep_votes, total_sim_votes)
        in_real == state_name \in DOMAIN real_df
        adj_dem_pct ==
            IF in_real
            THEN Blend(w, sim_dem_pct,
                       Rat(real_df[state_name].Democrat_real_percent, PctDen))
            ELSE sim_dem_pct
        adj_rep_pct ==
            IF in_real
            THEN Blend(w, sim_rep_pct,
                       Rat(real_df[state_name].Republican_real_percent, PctDen))
            ELSE sim_rep_pct
    IN  [Democrat_adj_pct |-> adj_dem_pct,
         Republican_adj_pct |-> adj_rep_pct,
         Winner_adjusted |-> WinnerAdjusted(adj_dem_pct, adj_rep_pct)]

\* adjust_simulated_results, with simulation_weight = w / WeightSteps
adjust_simulated_results(simulated_df, real_df, w) ==
    LET sim == UpperIndex(simulated_df)
        real == UpperIndex(real_df)
    IN  [state_name \in DOMAIN sim |-> AdjustedRow(sim, real, state_name, w)]

\* Lines 143-144: the two tables passed to adjust_simulated_results when the
\* call is over; each has its index assigned.
adjust_args_after(simulated_df, real_df) ==
    <<UpperIndex(simulated_df), UpperIndex(real_df)>>

(***************************************************************************)
(* The pipeline: the profiles with their votes, then each function on the  *)
(* output of the one before, as the pages call them.                       *)
(***************************************************************************)
\* The values run_repeated_simulations returns
EnsembleOutputs == {<<"1">>, <<"2">>, Undecided, ErrClient}

\* STATE values of the voter records explored: a state of the historical
\* table in two spellings, and one that the table does not have.
ProfileStates ==
    { <<"O", "h", "i", "o">>, <<"O", "H", "I", "O">>, <<"G", "u", "a", "m">> }

ProfileRows ==
    {[STATE |-> st, Vote |-> v] : st \in ProfileStates, v \in EnsembleOutputs}

ProfileTables ==
    UNION {[1..n -> ProfileRows] : n \in 1..MaxProfiles}

\* 2_Simulated_Results.py:17
ProcessVotes ==
    /\ "processed" \notin done
    /\ processed_df' = process_simulated_votes(simulated_profiles_with_votes_df)
    /\ done' = done \cup {"processed"}
    /\ UNCHANGED <<simulated_profiles_with_votes_df, real_election_data_df,
                   aggregated_results_df, comparison_df, adjusted_results_df,
                   last_simulation_weight>>
    /\ UNCHANGED ensembleVars
    /\ UNCHANGED <<callVars, pageVars, errors>>
    /\ UNCHANGED widgetVars

\* 2_Simulated_Results.py:18
Aggregate ==
    /\ "processed" \in done
    /\ "aggregated" \notin done
    /\ aggregated_results_df' = aggregate_results_by_state(processed_df)
    /\ processed_df' = UpperStates(processed_df)
    /\ done' = done \cup {"aggregated"}
    /\ UNCHANGED <<simulated_profiles_with_votes_df, real_election_data_df,
                   comparison_df, adjusted_results_df, last_simulation_weight>>
    /\ UNCHANGED ensembleVars
    /\ UNCHANGED <<callVars, pageVars, errors>>
    /\ UNCHANGED widgetVars

\* 3_Data_Comparison.py:24-28
Compare ==
    /\ "aggregated" \in done
    /\ "compared" \notin done
    /\ comparison_df' = compare_simulated_with_real(aggregated_results_df,
                                                    real_election_data_df)
    /\ done' = done \cup {"compared"}
    /\ UNCHANGED <<simulated_profiles_with_votes_df, processed_df,
                   real_election_data_df, aggregated_results_df,
                   adjusted_results_df, last_simulation_weight>>
    /\ UNCHANGED ensembleVars
    /\ UNCHANGED <<callVars, pageVars, errors>>
    /\ UNCHANGED widgetVars

\* 3_Data_Comparison.py:159-164
Adjust ==
    /\ "aggregated" \in done
    /\ "adjusted" \notin done
    /\ \E w \in Weights :
         /\ adjusted_results_df' = adjust_simulated_results(aggregated_results_df,
                                                           real_election_data_df, w)
         /\ last_simulation_weight' = <<w>>
    /\ done' = done \cup {"adjusted"}
    /\ UNCHANGED <<simulated_profiles_with_votes_df, processed_df,
                   real_election_data_df, aggregated_results_df, comparison_df>>
    /\ UNCHANGED ensembleVars
    /\ UNCHANGED <<callVars, pageVars, errors>>
    /\ UNCHANGED widgetVars

\* No direct call and no page handler has run
CallsIdle ==
    /\ call = "none"
    /\ args_before = <<>>
    /\ args_after = <<>>
    /\ returned = <<>>

\* 3_Data_Comparison.py:149-158 before the page is rendered: the slider at
\* its default, the button not pressed
WidgetsIdle ==
    /\ simulation_weight = WeightDefault
    /\ calculate_pressed = FALSE

PagesIdle ==
    /\ api_key = FALSE
    /\ voter_profiles_df = <<>>
    /\ run_pc = "idle"
    /\ profiles_to_simulate = <<>>
    /\ batch_votes = <<>>

EnsembleIdle ==
    /\ client = FALSE
    /\ repetitions = 0
    /\ pc = "idle"
    /\ responses = <<>>
    /\ raw_votes = <<>>
    /\ result = <<>>
    /\ calls = 0

PipelineInit ==
    /\ done = {}
    /\ simulated_profiles_with_votes_df \in ProfileTables
    /\ processed_df = <<>>
    /\ real_election_data_df = load_real_election_data
    /\ aggregated_results_df = <<>>
    /\ comparison_df = <<>>
    /\ adjusted_results_df = <<>>
    /\ last_simulation_weight = <<>>
    /\ EnsembleIdle
    /\ CallsIdle /\ PagesIdle /\ errors = {}
    /\ WidgetsIdle

PipelineNext == ProcessVotes \/ Aggregate \/ Compare \/ Adjust

SpecPipeline == PipelineInit /\ [][PipelineNext]_vars

PipelineIdle ==
    /\ done = {}
    /\ simulated_profiles_with_votes_df = <<>>
    /\ processed_df = <<>>
    /\ real_election_data_df = load_real_election_data
    /\ aggregated_results_df = <<>>
    /\ comparison_df = <<>>
    /\ adjusted_results_df = <<>>
    /\ last_simulation_weight = <<>>

EnsembleInit ==
    /\ client \in BOOLEAN
    /\ repetitions \in 1..MaxReps
    /\ pc = "entry"
    /\ responses = <<>>
    /\ raw_votes = <<>>
    /\ result = <<>>
    /\ calls = 0
    /\ PipelineIdle
    /\ CallsIdle /\ PagesIdle /\ errors = {}
    /\ WidgetsIdle

EnsembleNext == ClientMissing \/ BeginLoop \/ Iterate \/ Return

SpecEnsemble == EnsembleInit /\ [][EnsembleNext]_vars

(***************************************************************************)
(* The Simulation Configuration page: the profiles are loaded once, the    *)
(* Run button is pressed any number of times, the secrets may change       *)
(* between two presses. A press without client is one step; a press with   *)
(* a client is one step for the prompts, one step for each record (a whole *)
(* call of run_repeated_simulations) and one step that stores the result.  *)
(***************************************************************************)
\* generate_prompt_with_block with the state looked up as it is spelled
generate_prompt_exact_key(profile_row, real_results_df) ==
    LET key == profile_row.STATE
    IN  [STATE |-> profile_row.STATE,
         state_block |-> IF key \in DOMAIN real_results_df
                         THEN real_results_df[key].Block
                         ELSE "an unknown political leaning"]

\* simulation_logic.py:13-34: the prompt, as the two values the f-string is
\* given that depend on the state: the STATE of the record as spelled, and
\* state_block.
generate_prompt_with_block(profile_row, real_results_df) ==
    LET key == Upper(profile_row.STATE)
    IN  [STATE |-> profile_row.STATE,
         state_block |-> IF key \in DOMAIN real_results_df
                         THEN real_results_df[key].Block
                         ELSE "an unknown political leaning"]

\* The values get_voting_response returns with a usable client
Responses == {get_voting_response(TRUE, outcome) : outcome \in ApiOutcomes}

\* simulation_logic.py:59-61: the number of invocations of
\* get_voting_response the loop makes on these responses; it ends with the
\* first one that makes line 61 raise.
RunCalls(resps) ==
    IF \E k \in DOMAIN resps : LoopBody(<<>>, resps[k]).raised
    THEN CHOOSE k \in DOMAIN resps :
             /\ LoopBody(<<>>, resps[k]).raised
             /\ \A j \in 1..(k - 1) : ~LoopBody(<<>>, resps[j]).raised
    ELSE Len(resps)

\* What a call of run_repeated_simulations with a usable client and r
\* repetitions can do: how it ends, what it returns, how many oracle calls
\* it makes.
EnsembleRuns ==
    [r \in 1..MaxReps |->
        {[pc |-> run_repeated_simulations(TRUE, resps).pc,
          result |-> run_repeated_simulations(TRUE, resps).result,
          calls |-> RunCalls(resps)] : resps \in [1..r -> Responses]}]

\* The profiles tables explored; of a record only its STATE is kept
VoterTables ==
    UNION {[1..n -> {[STATE |-> st] : st \in ProfileStates}] : n \in 1..MaxProfiles}

\* 1_Simulation_Configuration.py:32-39, first rendering of the page
LoadProfiles ==
    /\ run_pc = "idle"
    /\ voter_profiles_df = <<>>
    /\ voter_profiles_df' \in VoterTables
    /\ errors' = {}
    /\ UNCHANGED <<api_key, run_pc, profiles_to_simulate, batch_votes>>
    /\ UNCHANGED <<ensembleVars, pipelineVars, callVars>>
    /\ UNCHANGED widgetVars

\* .streamlit/secrets.toml is edited between two presses
SecretsChange ==
    /\ run_pc = "idle"
    /\ api_key' = ~api_key
    /\ UNCHANGED <<voter_profiles_df, run_pc, profiles_to_simulate, batch_votes,
                   errors>>
    /\ UNCHANGED <<ensembleVars, pipelineVars, callVars>>
    /\ UNCHANGED widgetVars

\* 1_Simulation_Configuration.py:60-76 and 94-95: the button is pressed
PressRun ==
    /\ run_pc = "idle"
    /\ voter_profiles_df # <<>>
    /\ LET openai_client == get_openai_client(api_key) IN
       IF openai_client
       THEN /\ client' = openai_client
            /\ \E r \in 1..MaxReps : repetitions' = r
            /\ profiles_to_simulate' =
                   [k \in DOMAIN voter_profiles_df |->
                       WithColumn(voter_profiles_df[k], "Prompt",
                                  generate_prompt_with_block(voter_profiles_df[k],
                                                             real_election_data_df))]
            /\ batch_votes' = <<>>
            /\ calls' = 0
            /\ run_pc' = "running"
            /\ errors' = ClientErrors(api_key)
       ELSE /\ errors' = ClientErrors(api_key)
                            \cup {"OpenAI client could not be initialized."}
            /\ UNCHANGED <<client, repetitions, calls, profiles_to_simulate,
                           batch_votes, run_pc>>
    /\ UNCHANGED <<pc, responses, raw_votes, result>>
    /\ UNCHANGED <<api_key, voter_profiles_df>>
    /\ UNCHANGED <<pipelineVars, callVars>>
    /\ UNCHANGED widgetVars

\* SimulateRecord that stores the table voted so far after each record
SimulateRecordPublishing ==
    /\ run_pc = "running"
    /\ Len(batch_votes) < Len(profiles_to_simulate)
    /\ \E run \in EnsembleRuns[repetitions] :
         /\ calls' = calls + run.calls
         /\ IF run.pc = "raised"
            THEN /\ run_pc' = "aborted"
                 /\ UNCHANGED <<batch_votes, simulated_profiles_with_votes_df>>
            ELSE /\ batch_votes' = Append(batch_votes, run.result)
                 /\ simulated_profiles_with_votes_df' =
                        [k \in 1..(Len(batch_votes) + 1) |->
                            WithColumn(profiles_to_simulate[k], "Vote",
                                       Append(batch_votes, run.result)[k])]
                 /\ UNCHANGED run_pc
    /\ UNCHANGED <<client, repetitions, pc, responses, raw_votes, result>>
    /\ UNCHANGED <<api_key, voter_profiles_df, profiles_to_simulate, errors>>
    /\ UNCHANGED <<done, processed_df, real_election_data_df,
                   aggregated_results_df, comparison_df, adjusted_results_df,
                   last_simulation_weight>>
    /\ UNCHANGED callVars
    /\ UNCHANGED widgetVars

\* Lines 83-86: one record of the loop
SimulateRecord ==
    /\ run_pc = "running"
    /\ Len(batch_votes) < Len(profiles_to_simulate)
    /\ \E run \in EnsembleRuns[repetitions] :
         /\ calls' = calls + run.calls
         /\ IF run.pc = "raised"
            THEN run_pc' = "aborted" /\ UNCHANGED batch_votes
            ELSE batch_votes' = Append(batch_votes, run.result)
                    /\ UNCHANGED run_pc
    /\ UNCHANGED <<client, repetitions, pc, responses, raw_votes, result>>
    /\ UNCHANGED <<api_key, voter_profiles_df, profiles_to_simulate, errors>>
    /\ UNCHANGED <<pipelineVars, callVars>>
    /\ UNCHANGED widgetVars

\* Lines 88-89: the Vote column is set and the table is stored
FinishRun ==
    /\ run_pc = "running"
    /\ Len(batch_votes) = Len(profiles_to_simulate)
    /\ simulated_profiles_with_votes_df' =
           [k \in DOMAIN profiles_to_simulate |->
               WithColumn(profiles_to_simulate[k], "Vote", batch_votes[k])]
    /\ run_pc' = "idle"
    /\ profiles_to_simulate' = <<>>
    /\ batch_votes' = <<>>
    /\ client' = FALSE
    /\ repetitions' = 0
    /\ UNCHANGED <<pc, responses, raw_votes, result, calls>>
    /\ UNCHANGED <<api_key, voter_profiles_df, errors>>
    /\ UNCHANGED <<done, processed_df, real_election_data_df,
                   aggregated_results_df, comparison_df, adjusted_results_df,
                   last_simulation_weight>>
    /\ UNCHANGED callVars
    /\ UNCHANGED widgetVars

\* Lines 80 and 86: the user acts on a widget while the run is in progress;
\* Streamlit stops the script at its next st call (the progress bar) to run
\* it anew.
Interrupt ==
    /\ run_pc = "running"
    /\ run_pc' = "aborted"
    /\ UNCHANGED <<api_key, voter_profiles_df, profiles_to_simulate, batch_votes,
                   errors>>
    /\ UNCHANGED <<ensembleVars, pipelineVars, callVars>>
    /\ UNCHANGED widgetVars

\* The script run that an exception or the user ended is over: its locals are
\* gone, the page is rendered again.
Rerender ==
    /\ run_pc = "aborted"
    /\ run_pc' = "idle"
    /\ profiles_to_simulate' = <<>>
    /\ batch_votes' = <<>>
    /\ client' = FALSE
    /\ repetitions' = 0
    /\ errors' = {}
    /\ UNCHANGED <<pc, responses, raw_votes, result, calls>>
    /\ UNCHANGED <<api_key, voter_profiles_df>>
    /\ UNCHANGED <<pipelineVars, callVars>>
    /\ UNCHANGED widgetVars

\* app.py:42-59: every table of the session is None but the historical one
AppInit ==
    /\ PagesIdle /\ PipelineIdle /\ EnsembleIdle /\ CallsIdle
    /\ errors = {}
    /\ WidgetsIdle

AppNext ==
    \/ LoadProfiles \/ SecretsChange \/ PressRun
    \/ SimulateRecord \/ FinishRun \/ Interrupt \/ Rerender

SpecApp == AppInit /\ [][AppNext]_vars

(***************************************************************************)
(* The session over its three pages, each rendering one step. The Run      *)
(* handler of the Simulation Configuration page writes the session only    *)
(* at its end (lines 88-89), so a run that gets there is one step here; a  *)
(* run that does not get there leaves the session as it is.                *)
(***************************************************************************)
\* The decisions run_repeated_simulations returns with a usable client
Decisions ==
    UNION {{run.result : run \in {x \in EnsembleRuns[r] : x.pc = "returned"}} :
              r \in 1..MaxReps}

\* STATE values of the sessions explored: a state the historical table
\* has, and one it does not have.
SessionStates == { <<"O", "h", "i", "o">>, <<"G", "u", "a", "m">> }

\* The profiles tables of the sessions explored
SessionTables ==
    UNION {[1..n -> {[STATE |-> st] : st \in SessionStates}] :
              n \in 1..MaxSessionProfiles}

\* 1_Simulation_Configuration.py:61-89, a run that reaches line 89
RunSimulation ==
    /\ voter_profiles_df # <<>>
    /\ \E new_votes \in [DOMAIN voter_profiles_df -> Decisions] :
         simulated_profiles_with_votes_df' =
            [k \in DOMAIN voter_profiles_df |->
                WithColumn(
                    WithColumn(voter_profiles_df[k], "Prompt",
                               generate_prompt_with_block(voter_profiles_df[k],
                                                          real_election_data_df)),
                    "Vote", new_votes[k])]
    /\ errors' = {}
    /\ UNCHANGED <<done, processed_df, real_election_data_df,
                   aggregated_results_df, comparison_df, adjusted_results_df,
                   last_simulation_weight>>
    /\ UNCHANGED <<ensembleVars, callVars, pageVars, widgetVars>>

\* NeedsAggregation that holds on every rendering
NeedsAggregationAlways(computed) == TRUE

\* 2_Simulated_Results.py:15: aggregated_results_df is None
NeedsAggregation(computed) == "aggregated" \notin computed

\* 3_Data_Comparison.py:24: comparison_df is None
NeedsComparison(computed) == "compared" \notin computed

\* 2_Simulated_Results.py:11-18
Page2Render ==
    /\ simulated_profiles_with_votes_df # <<>>
    /\ IF NeedsAggregation(done)
       THEN LET processed == process_simulated_votes(simulated_profiles_with_votes_df)
            IN  /\ aggregated_results_df' = aggregate_results_by_state(processed)
                /\ processed_df' = aggregate_arg_after(processed)
                /\ errors' = ProcessErrors(simulated_profiles_with_votes_df)
                                 \cup AggregateErrors(processed)
                /\ done' = done \cup {"processed", "aggregated"}
       ELSE /\ errors' = {}
            /\ UNCHANGED <<aggregated_results_df, processed_df, done>>
    /\ UNCHANGED <<simulated_profiles_with_votes_df, real_election_data_df,
                   comparison_df, adjusted_results_df, last_simulation_weight>>
    /\ UNCHANGED <<ensembleVars, callVars, pageVars, widgetVars>>

\* ShouldAdjust that looks at the button only
ShouldAdjustOnPress(pressed, computed, last_weight, weight) == pressed

\* 3_Data_Comparison.py:158: the condition of the recomputation
ShouldAdjust(pressed, computed, last_weight, weight) ==
    pressed \/ ("adjusted" \in computed /\ last_weight # <<weight>>)

\* 3_Data_Comparison.py:11-164, with the slider at `weight`. A press of the
\* button renders the page with the slider where the last rendering left
\* it; any other rendering may find the slider anywhere.
Page3Render ==
    /\ "aggregated" \in done
    /\ \E pressed \in BOOLEAN :
       \E weight \in IF pressed THEN {simulation_weight} ELSE Weights :
         /\ simulation_weight' = weight
         /\ calculate_pressed' = pressed
         /\ comparison_df' =
                IF NeedsComparison(done)
                THEN compare_simulated_with_real(aggregated_results_df,
                                                 real_election_data_df)
                ELSE comparison_df
         /\ IF ShouldAdjust(pressed, done, last_simulation_weight, weight)
            THEN /\ adjusted_results_df' =
                        adjust_simulated_results(aggregated_results_df,
                                                 real_election_data_df, weight)
                 /\ last_simulation_weight' = <<weight>>
                 /\ done' = done \cup {"compared", "adjusted"}
            ELSE /\ done' = done \cup {"compared"}
                 /\ UNCHANGED <<adjusted_results_df, last_simulation_weight>>
    /\ errors' = {}
    /\ UNCHANGED <<simulated_profiles_with_votes_df, processed_df,
                   real_election_data_df, aggregated_results_df>>
    /\ UNCHANGED <<ensembleVars, callVars, pageVars>>

\* app.py:42-59 and 1_Simulation_Configuration.py:32-39: the profiles are
\* loaded, every other table of the session is None but the historical one
SessionInit ==
    /\ api_key = TRUE
    /\ voter_profiles_df \in SessionTables
    /\ run_pc = "idle"
    /\ profiles_to_simulate = <<>>
    /\ batch_votes = <<>>
    /\ PipelineIdle /\ EnsembleIdle /\ CallsIdle /\ WidgetsIdle
    /\ errors = {}

SessionNext == RunSimulation \/ Page2Render \/ Page3Render

SpecSession == SessionInit /\ [][SessionNext]_vars

(***************************************************************************)
(* The functions of data_processing called once each, on any table of the  *)
(* shape they accept: profiles with or without the Vote and STATE columns  *)
(* for process_simulated_votes and aggregate_results_by_state (as the      *)
(* Simulated Results page calls them), state-keyed tables whose keys are   *)
(* spelled in upper case or not for the comparison and the adjustment.     *)
(***************************************************************************)
StoredRows ==
    { ProfileRows,
      {[STATE |-> st] : st \in ProfileStates},
      {[Vote |-> v] : v \in EnsembleOutputs} }

\* Tables a caller may hold: every row of a table has the same columns
StoredTables ==
    UNION {[1..n -> rows] : n \in 1..MaxProfiles, rows \in StoredRows}

\* The table t with its key k spelled s
Rekey(t, k, s) ==
    [x \in (DOMAIN t \ {k}) \cup {s} |-> IF x = s THEN t[k] ELSE t[x]]

\* t, and t with one key spelled as a voter record spells the state
Respellings(t) ==
    {t} \cup UNION {{Rekey(t, k, s) : s \in {x \in ProfileStates : Upper(x) = k}} :
                       k \in DOMAIN t}

SimulatedArgs ==
    UNION {Respellings(aggregate_results_by_state(process_simulated_votes(t))) :
              t \in ProfileTables}

RealArgs == Respellings(load_real_election_data)

\* 2_Simulated_Results.py:15-18 on the stored table `stored`
CallAggregate ==
    /\ call = "none"
    /\ \E stored \in StoredTables :
         LET processed == process_simulated_votes(stored)
         IN  /\ args_before' = <<processed>>
             /\ args_after' = <<aggregate_arg_after(processed)>>
             /\ returned' = aggregate_results_by_state(processed)
             /\ aggregated_results_df' = aggregate_results_by_state(processed)
             /\ processed_df' = aggregate_arg_after(processed)
             /\ errors' = ProcessErrors(stored) \cup AggregateErrors(processed)
    /\ call' = "aggregate_results_by_state"
    /\ done' = {"processed", "aggregated"}
    /\ UNCHANGED <<simulated_profiles_with_votes_df, real_election_data_df,
                   comparison_df, adjusted_results_df, last_simulation_weight>>
    /\ UNCHANGED <<ensembleVars, pageVars>>
    /\ UNCHANGED widgetVars

\* compare_simulated_with_real(simulated, real)
CallCompare ==
    /\ call = "none"
    /\ \E simulated \in SimulatedArgs, real \in RealArgs :
         /\ args_before' = <<simulated, real>>
         /\ args_after' = compare_args_after(simulated, real)
         /\ returned' = compare_simulated_with_real(simulated, real)
    /\ call' = "compare_simulated_with_real"
    /\ errors' = {}
    /\ UNCHANGED <<pipelineVars, ensembleVars, pageVars>>
    /\ UNCHANGED widgetVars

\* adjust_simulated_results(simulated, real, w / WeightSteps)
CallAdjust ==
    /\ call = "none"
    /\ \E simulated \in SimulatedArgs, real \in RealArgs, w \in Weights :
         /\ args_before' = <<simulated, real>>
         /\ args_after' = adjust_args_after(simulated, real)
         /\ returned' = adjust_simulated_results(simulated, real, w)
    /\ call' = "adjust_simulated_results"
    /\ errors' = {}
    /\ UNCHANGED <<pipelineVars, ensembleVars, pageVars>>
    /\ UNCHANGED widgetVars

CallsInit ==
    /\ CallsIdle /\ PipelineIdle /\ EnsembleIdle /\ PagesIdle
    /\ errors = {}
    /\ WidgetsIdle

CallsNext == CallAggregate \/ CallCompare \/ CallAdjust

SpecCalls == CallsInit /\ [][CallsNext]_vars

(***************************************************************************)
(* Claims about the ensemble voter                                         *)
(***************************************************************************)
\* The sample a response stands for: 1 or 2 for a text without error marker
\* whose first character after stripping is "1" or "2"; 0 (invalid) for any
\* other response, a response without text included.
SampleOf(response) ==
    IF response.none THEN 0
    ELSE IF Contains(response.text, "Error_API_Call")
            \/ Contains(response.text, "Error_Client_Not_Initialized") THEN 0
    ELSE IF FirstChar(Strip(response.text)) = <<"1">> THEN 1
    ELSE IF FirstChar(Strip(response.text)) = <<"2">> THEN 2
    ELSE 0

NumSamples(v) == Cardinality({k \in DOMAIN responses : SampleOf(responses[k]) = v})

Finished == pc \in {"returned", "raised"}

\* All R oracle calls of a call with a usable client have been answered.
AllAnswered == client /\ Finished /\ Len(responses) = repetitions

\* C1: with at least one valid sample among the R responses, the call returns
\* "1" when the valid 1-samples are at least as many as the valid 2-samples
\* (majority, or the fixed tie-break) and "2" when the 2-samples are more.
C1_PluralityDecision ==
    (AllAnswered /\ NumSamples(1) + NumSamples(2) >= 1)
        => /\ pc = "returned"
           /\ result = IF NumSamples(1) >= NumSamples(2) THEN <<"1">> ELSE <<"2">>

\* C2: with a usable client the call returns "Undecided" exactly when no
\* repetition gave a valid sample, and returns "1" or "2" as soon as one did,
\* whatever the other repetitions did.
C2_UndecidedIffNoValidSample ==
    AllAnswered
        => /\ pc = "returned"
           /\ (result = Undecided) <=> (NumSamples(1) + NumSamples(2) = 0)
           /\ (NumSamples(1) + NumSamples(2) >= 1) => result \in {<<"1">>, <<"2">>}

\* What holds of the calls that return: the plurality rule and the
\* Undecided rule above, for every call that is not aborted by line 61.
ReturnedDecision ==
    (client /\ pc = "returned")
        => /\ Len(responses) = repetitions
           /\ result = IF NumSamples(1) + NumSamples(2) = 0 THEN Undecided
                        ELSE IF NumSamples(1) >= NumSamples(2) THEN <<"1">>
                        ELSE <<"2">>

\* Permutations of 1..n
Perms(n) == {p \in [1..n -> 1..n] : \A a, b \in 1..n : p[a] = p[b] => a = b}

Permuted(s, p) == [k \in DOMAIN s |-> s[p[k]]]

\* C3: the outcome of a call is the outcome of the call on any reordering of
\* the same responses (valid and invalid ones alike).
C3_OrderIndependent ==
    (client /\ Finished)
        => \A p \in Perms(Len(responses)) :
             run_repeated_simulations(client, Permuted(responses, p))
                 = [pc |-> pc, result |-> result]

\* A returned call with a 1-sample, a 2-sample and an invalid sample, the
\* 2-sample first.
C3_Witness ==
    /\ client /\ pc = "returned"
    /\ Len(responses) = 3
    /\ SampleOf(responses[1]) = 2
    /\ NumSamples(1) = 1 /\ NumSamples(2) = 1 /\ NumSamples(0) = 1
    /\ result = <<"1">>

(***************************************************************************)
(* Claims about the pipeline                                               *)
(***************************************************************************)
Parties == {"Democrat", "Republican", "Undecided"}

Ohio == <<"O", "h", "i", "o">>
OHIO == <<"O", "H", "I", "O">>
GUAM == <<"G", "U", "A", "M">>

\* The records given to process_simulated_votes, as loaded
Input == simulated_profiles_with_votes_df

\* C4: after process_simulated_votes every record's Vote_Party is Democrat,
\* Republican or Undecided: Democrat exactly for the vote "1", Republican
\* exactly for "2", Undecided for every other ensemble output.
C4_VotePartyMapping ==
    ("processed" \in done)
        => /\ DOMAIN processed_df = DOMAIN Input
           /\ \A k \in DOMAIN Input :
                LET party == processed_df[k].Vote_Party
                IN  /\ party \in Parties
                    /\ (party = "Democrat") <=> (Input[k].Vote = <<"1">>)
                    /\ (party = "Republican") <=> (Input[k].Vote = <<"2">>)

\* Processed records with the three decisions, the Undecided one coming
\* from the error sentinel.
C4_Witness ==
    /\ "processed" \in done
    /\ \E k \in DOMAIN Input :
         Input[k].Vote = ErrClient /\ processed_df[k].Vote_Party = "Undecided"
    /\ \E k \in DOMAIN Input :
         Input[k].Vote = <<"2">> /\ processed_df[k].Vote_Party = "Republican"

\* Number of records of the state `st` (uppercased) decided `party`
RecordsOf(st, party) ==
    Cardinality({k \in DOMAIN Input :
                    Upper(Input[k].STATE) = st /\ processed_df[k].Vote_Party = party})

RECURSIVE SumOver(_, _)
SumOver(f, S) ==
    IF S = {} THEN 0
    ELSE LET x == CHOOSE y \in S : TRUE IN f[x] + SumOver(f, S \ {x})

\* C5: the aggregated table has exactly the distinct uppercased state names
\* as rows, each count of a row is the number of records of that state with
\* that decision (0 where there is none), and all counts add up to the
\* number of records.
C5_CountsPerState ==
    ("aggregated" \in done)
        => LET agg == aggregated_results_df IN
           /\ DOMAIN agg = {Upper(Input[k].STATE) : k \in DOMAIN Input}
           /\ \A st \in DOMAIN agg : \A party \in Parties :
                agg[st][party] = RecordsOf(st, party)
           /\ SumOver([st \in DOMAIN agg |->
                          agg[st].Democrat + agg[st].Republican + agg[st].Undecided],
                      DOMAIN agg) = Len(Input)

\* 'Ohio' and 'OHIO' records with different decisions, in one row.
C5_Witness ==
    /\ "aggregated" \in done
    /\ \E j, k \in DOMAIN Input :
         /\ Input[j].STATE = Ohio /\ Input[k].STATE = OHIO
         /\ processed_df[j].Vote_Party = "Democrat"
         /\ processed_df[k].Vote_Party = "Undecided"
    /\ DOMAIN aggregated_results_df = {OHIO}
    /\ aggregated_results_df[OHIO].Democrat = 1
    /\ aggregated_results_df[OHIO].Republican = 0
    /\ aggregated_results_df[OHIO].Undecided = 1

\* C6: Winner_simulated is Tie exactly when the Democrat and Republican
\* counts are equal, otherwise the party of the two with the larger count;
\* never Undecided.
C6_WinnerSimulated ==
    ("aggregated" \in done)
        => \A st \in DOMAIN aggregated_results_df :
             LET row == aggregated_results_df[st] IN
             /\ row.Winner_simulated \in {"Democrat", "Republican", "Tie"}
             /\ (row.Winner_simulated = "Tie") <=> (row.Democrat = row.Republican)
             /\ (row.Democrat > row.Republican) => row.Winner_simulated = "Democrat"
             /\ (row.Republican > row.Democrat) => row.Winner_simulated = "Republican"

\* A state with Undecided votes only, and a winner of Tie.
C6_Witness ==
    /\ "aggregated" \in done
    /\ \E st \in DOMAIN aggregated_results_df :
         LET row == aggregated_results_df[st] IN
         /\ row.Democrat = 0 /\ row.Republican = 0 /\ row.Undecided = 2
         /\ row.Winner_simulated = "Tie"

\* The weight of the adjustment made, in tenths
W == last_simulation_weight[1]

Hist == load_real_election_data

\* a = n / d, for integers n and d > 0
IsRatio(a, n, d) == a.d # 0 /\ a.n * d = n * a.d

\* C7: for a state of the historical table the adjusted percentage is
\* w*sim + (1-w)*real (the simulated one at w = 1, the historical one at
\* w = 0); for any other state it is the simulated percentage, whatever w.
C7_BlendFormula ==
    ("adjusted" \in done)
        => \A st \in DOMAIN aggregated_results_df :
             LET dem == aggregated_results_df[st].Democrat
                 rep == aggregated_results_df[st].Republican
                 tot == IF dem + rep > 0 THEN dem + rep ELSE 1
                 adj == adjusted_results_df[st]
             IN  IF st \in DOMAIN Hist
                 THEN /\ IsRatio(adj.Democrat_adj_pct,
                                 W * 10 * 100 * dem
                                   + (10 - W) * Hist[st].Democrat_real_percent * tot,
                                 10 * 10 * tot)
                      /\ IsRatio(adj.Republican_adj_pct,
                                 W * 10 * 100 * rep
                                   + (10 - W) * Hist[st].Republican_real_percent * tot,
                                 10 * 10 * tot)
                      /\ W = 10 =>
                           /\ IsRatio(adj.Democrat_adj_pct, 100 * dem, tot)
                           /\ IsRatio(adj.Republican_adj_pct, 100 * rep, tot)
                      /\ W = 0 =>
                           /\ IsRatio(adj.Democrat_adj_pct,
                                      Hist[st].Democrat_real_percent, 10)
                           /\ IsRatio(adj.Republican_adj_pct,
                                      Hist[st].Republican_real_percent, 10)
                 ELSE /\ IsRatio(adj.Democrat_adj_pct, 100 * dem, tot)
                      /\ IsRatio(adj.Republican_adj_pct, 100 * rep, tot)

\* An adjustment at weight 0.8 of a table with a state of the historical
\* table and a state without historical data, both with votes.
C7_Witness ==
    /\ "adjusted" \in done
    /\ W = 8
    /\ DOMAIN adjusted_results_df = {OHIO, GUAM}
    /\ aggregated_results_df[OHIO].Democrat = 1
    /\ aggregated_results_df[GUAM].Republican = 1

\* C8: Winner_adjusted is Democrat when the adjusted Democrat percentage is
\* the larger, Republican when it is the smaller, Tie exactly when the two
\* are equal.
C8_WinnerAdjusted ==
    ("adjusted" \in done)
        => \A st \in DOMAIN adjusted_results_df :
             LET adj == adjusted_results_df[st]
                 d == adj.Democrat_adj_pct
                 r == adj.Republican_adj_pct
                 dr == d.n * r.d
                 rd == r.n * d.d
             IN  /\ d.d > 0 /\ r.d > 0
                 /\ adj.Winner_adjusted \in {"Democrat", "Republican", "Tie"}
                 /\ (adj.Winner_adjusted = "Democrat") <=> (dr > rd)
                 /\ (adj.Winner_adjusted = "Republican") <=> (dr < rd)
                 /\ (adj.Winner_adjusted = "Tie") <=> (dr = rd)

\* An adjusted row with equal, positive percentages and a winner of Tie.
C8_Witness ==
    /\ "adjusted" \in done
    /\ \E st \in DOMAIN adjusted_results_df :
         /\ adjusted_results_df[st].Winner_adjusted = "Tie"
         /\ adjusted_results_df[st].Democrat_adj_pct.n > 0

\* C9: every aggregated state has an adjusted row with well-defined
\* percentages; a state without Democrat and Republican votes enters the
\* blend with simulated shares 0, a state with such votes with the shares
\* dem/(dem+rep)*100 and rep/(dem+rep)*100.
C9_ZeroVoteGuard ==
    ("adjusted" \in done)
        => /\ DOMAIN adjusted_results_df = DOMAIN aggregated_results_df
           /\ \A st \in DOMAIN aggregated_results_df :
                LET dem == aggregated_results_df[st].Democrat
                    rep == aggregated_results_df[st].Republican
                    adj == adjusted_results_df[st]
                    \* the adjusted percentage for a simulated share of n/d
                    Expect(n, d, real) ==
                        IF st \in DOMAIN Hist
                        THEN Blend(W, Rat(n, d), Rat(real, PctDen))
                        ELSE Rat(n, d)
                IN  /\ adj.Democrat_adj_pct.d > 0
                    /\ adj.Republican_adj_pct.d > 0
                    /\ IF dem + rep = 0
                       THEN /\ REq(adj.Democrat_adj_pct,
                                   Expect(0, 1, Hist[st].Democrat_real_percent))
                            /\ REq(adj.Republican_adj_pct,
                                   Expect(0, 1, Hist[st].Republican_real_percent))
                       ELSE /\ REq(adj.Democrat_adj_pct,
                                   Expect(100 * dem, dem + rep,
                                          Hist[st].Democrat_real_percent))
                            /\ REq(adj.Republican_adj_pct,
                                   Expect(100 * rep, dem + rep,
                                          Hist[st].Republican_real_percent))

\* Adjusted rows for a state of the historical table and for one without
\* historical data, both with Undecided votes only.
C9_Witness ==
    /\ "adjusted" \in done
    /\ W = 8
    /\ DOMAIN adjusted_results_df = {OHIO, GUAM}
    /\ \A st \in {OHIO, GUAM} :
         /\ aggregated_results_df[st].Democrat = 0
         /\ aggregated_results_df[st].Republican = 0
         /\ aggregated_results_df[st].Undecided = 1
    /\ adjusted_results_df[GUAM].Democrat_adj_pct.n = 0

\* C10: the comparison table has a row for every simulated state and for no
\* other state, and each row carries the simulated counts and winner
\* unchanged.
C10_LeftJoin ==
    ("compared" \in done)
        => /\ DOMAIN comparison_df = DOMAIN aggregated_results_df
           /\ \A st \in DOMAIN Hist :
                st \notin DOMAIN aggregated_results_df => st \notin DOMAIN comparison_df
           /\ \A st \in DOMAIN aggregated_results_df :
                /\ comparison_df[st].Democrat = aggregated_results_df[st].Democrat
                /\ comparison_df[st].Republican = aggregated_results_df[st].Republican
                /\ comparison_df[st].Undecided = aggregated_results_df[st].Undecided
                /\ comparison_df[st].Winner_simulated
                       = aggregated_results_df[st].Winner_simulated

\* A comparison of a table with a state of the historical table and a
\* state without historical counterpart.
C10_Witness ==
    /\ "compared" \in done
    /\ DOMAIN comparison_df = {OHIO, GUAM}
    /\ comparison_df[OHIO].Winner_real = "Republican"
    /\ comparison_df[GUAM].Republican = 1

\* C11: in the comparison table, a simulated state that the historical table
\* lacks has Winner_real "No Real Data" and Block "Unknown Block", and none of
\* its historical fields is left null.
C11_NoHistoricalFieldNull ==
    ("compared" \in done)
        => \A st \in DOMAIN comparison_df :
             st \notin DOMAIN Hist
                 => /\ comparison_df[st].Winner_real = "No Real Data"
                    /\ comparison_df[st].Block = "Unknown Block"
                    /\ comparison_df[st].Democrat_real_percent # <<>>
                    /\ comparison_df[st].Republican_real_percent # <<>>

\* C11 (amended): in the comparison table, a simulated state that the
\* historical table lacks has Winner_real "No Real Data" and Block "Unknown
\* Block", and its two historical percentages stay null; a state that the
\* historical table has carries the historical row.
C11_SentinelsFilled ==
    ("compared" \in done)
        => \A st \in DOMAIN comparison_df :
             IF st \in DOMAIN Hist
             THEN /\ comparison_df[st].Winner_real = Hist[st].Winner_real
                  /\ comparison_df[st].Block = Hist[st].Block
                  /\ comparison_df[st].Democrat_real_percent
                         = <<Hist[st].Democrat_real_percent>>
                  /\ comparison_df[st].Republican_real_percent
                         = <<Hist[st].Republican_real_percent>>
             ELSE /\ comparison_df[st].Winner_real = "No Real Data"
                  /\ comparison_df[st].Block = "Unknown Block"
                  /\ comparison_df[st].Democrat_real_percent = <<>>
                  /\ comparison_df[st].Republican_real_percent = <<>>

\* A comparison of a table that has a state without historical data next to
\* a state with historical data.
C11_Witness ==
    /\ "compared" \in done
    /\ GUAM \in DOMAIN comparison_df
    /\ OHIO \in DOMAIN comparison_df
    /\ comparison_df[GUAM].Block = "Unknown Block"
    /\ comparison_df[GUAM].Democrat_real_percent = <<>>

\* C12: Correct_Prediction is true exactly when the simulated winner equals
\* the historical winner and the historical winner is not "No Real Data"; a
\* state without historical data and a simulated "Tie" are never correct.
C12_CorrectPrediction ==
    ("compared" \in done)
        => \A st \in DOMAIN comparison_df :
             /\ comparison_df[st].Correct_Prediction
                    <=> /\ comparison_df[st].Winner_simulated
                               = comparison_df[st].Winner_real
                        /\ comparison_df[st].Winner_real # "No Real Data"
             /\ st \notin DOMAIN Hist => ~comparison_df[st].Correct_Prediction
             /\ comparison_df[st].Winner_simulated = "Tie"
                    => ~comparison_df[st].Correct_Prediction

\* A comparison with a correctly predicted state, a tied state with
\* historical data and a state without historical data.
C12_Witness ==
    /\ "compared" \in done
    /\ \E st \in DOMAIN comparison_df : comparison_df[st].Correct_Prediction
    /\ \E st \in DOMAIN comparison_df :
         /\ st \notin DOMAIN Hist
         /\ comparison_df[st].Winner_real = "No Real Data"
         /\ ~comparison_df[st].Correct_Prediction

(***************************************************************************)
(* Claims about failed calls and the samples of the ensemble               *)
(***************************************************************************)
\* C14: with a usable client, a failed oracle call (an exception, a timeout,
\* a malformed response, a response without text content) is only left out
\* of the sample pool: it is not counted as a vote, the call is not aborted,
\* and it returns "1", "2" or "Undecided".
C14_FailedCallAbsorbed ==
    client
        => /\ pc # "raised"
           /\ Len(IntVotes(raw_votes)) <= NumSamples(1) + NumSamples(2)
           /\ pc = "returned" => result \in {<<"1">>, <<"2">>, Undecided}

\* The sample a response stands for when only its first character is looked
\* at.
FirstCharSample(response) ==
    IF response.none THEN 0
    ELSE IF FirstChar(response.text) = <<"1">> THEN 1
    ELSE IF FirstChar(response.text) = <<"2">> THEN 2
    ELSE 0

\* The valid samples of the responses so far, in call order, under a rule.
ValidSamples(rule(_)) ==
    LET valid == SelectSeq(responses, LAMBDA r : rule(r) # 0)
    IN  [k \in DOMAIN valid |-> rule(valid[k])]

\* C15: a response is counted as a valid sample for v exactly when its first
\* character is "1" or "2" (v being that digit); every other response is
\* left out.
C15_FirstCharacterRule ==
    client => IntVotes(raw_votes) = ValidSamples(FirstCharSample)

\* C15 (amended): a response is counted as a valid sample for v exactly when
\* it holds neither "Error_API_Call" nor "Error_Client_Not_Initialized" and
\* its first character after stripping the surrounding whitespace is "1" or
\* "2" (v being that digit); every other text response is left out.
C15_StrippedFirstCharacterRule ==
    client => IntVotes(raw_votes) = ValidSamples(SampleOf)

\* A call that counted a text with leading whitespace, left out a text that
\* begins with "1" and holds an error marker, and left out a text that
\* begins with another character.
C15_Witness ==
    /\ client /\ pc = "returned"
    /\ responses = << Str(<<" ", "1">>), Str(<<"1", " ", "Error_API_Call">>),
                      Str(<<"x", "1">>) >>
    /\ IntVotes(raw_votes) = <<1>>

\* C16: a call with a usable client and R repetitions makes exactly R adapter
\* invocations, one external call each, whatever the responses are.
C16_ExactlyRCalls ==
    /\ calls = Len(responses)
    /\ calls <= repetitions
    /\ (client /\ Finished) => calls = repetitions

(***************************************************************************)
(* Claims about the aggregation as a function of its records               *)
(***************************************************************************)
\* C19: the aggregated table is the same for every reordering of the
\* records, and aggregating the table a second time, after the first call
\* has uppercased its STATE column, gives the same table again. Two tables
\* with the same multiset of (uppercased state, decision) pairs differ by a
\* reordering and a respelling of states, so they aggregate alike.
C19_MultisetOnly ==
    ("aggregated" \in done)
        => /\ \A p \in Perms(Len(Input)) :
                aggregate_results_by_state(
                    Permuted(process_simulated_votes(Input), p))
                        = aggregated_results_df
           /\ processed_df = UpperStates(process_simulated_votes(Input))
           /\ aggregate_results_by_state(processed_df) = aggregated_results_df

\* An aggregation of an 'Ohio' record and an 'OHIO' record with different
\* decisions: the second aggregation reads the respelled table, a
\* reordering swaps the two decisions.
C19_Witness ==
    /\ "aggregated" \in done
    /\ Len(Input) = 2
    /\ Input[1].STATE = Ohio /\ Input[2].STATE = OHIO
    /\ processed_df[1].STATE = OHIO
    /\ processed_df[1].Vote_Party = "Democrat"
    /\ processed_df[2].Vote_Party = "Republican"
    /\ aggregated_results_df[OHIO].Winner_simulated = "Tie"

(***************************************************************************)
(* Claims about the calls of the data_processing functions                 *)
(***************************************************************************)
\* C13: compare_simulated_with_real and adjust_simulated_results leave the
\* two tables passed in exactly as they were, index keys and contents.
C13_ArgumentsUntouched ==
    (call \in {"compare_simulated_with_real", "adjust_simulated_results"})
        => args_after = args_before

\* The table aggregate_results_by_state was called on lacks STATE or
\* Vote_Party.
AggregatedWithoutColumns ==
    /\ call = "aggregate_results_by_state"
    /\ MissingColumns(args_before[1])

\* C17: when STATE or Vote_Party is missing, the aggregation fails and no
\* empty result table is produced and stored by the caller.
C17_FailsFast ==
    AggregatedWithoutColumns
        => /\ "aggregated" \notin done
           /\ aggregated_results_df # EmptyResults

\* C17 (amended): when STATE or Vote_Party is missing, the aggregation shows
\* its error message, leaves the table passed in as it is and returns a
\* table without rows, which the Simulated Results page stores as the
\* aggregated results; with both columns it shows no message and returns a
\* table with at least one row.
C17_EmptyTableStored ==
    (call = "aggregate_results_by_state")
        => /\ "aggregated" \in done
           /\ aggregated_results_df = returned
           /\ IF MissingColumns(args_before[1])
              THEN /\ AggregateErrors(args_before[1]) # {}
                   /\ AggregateErrors(args_before[1]) \subseteq errors
                   /\ returned = EmptyResults
                   /\ args_after = args_before
              ELSE /\ errors = {}
                   /\ DOMAIN returned # {}

\* An aggregation of a table that has STATE and no Vote column, hence no
\* Vote_Party: both messages are shown and the empty table is stored.
C17_Witness ==
    /\ AggregatedWithoutColumns
    /\ "STATE" \in Columns(args_before[1])
    /\ Cardinality(errors) = 2
    /\ aggregated_results_df = EmptyResults
    /\ "aggregated" \in done

(***************************************************************************)
(* Claims about the Simulation Configuration page                          *)
(***************************************************************************)
\* C18: while the credential is absent, no step of the page starts a run,
\* builds a prompt, makes an oracle call or changes the stored simulated
\* table, and a press of the Run button shows the configuration error.
C18_NoRunWithoutCredential ==
    [][ ~api_key
          => /\ run_pc' = "idle"
             /\ profiles_to_simulate' = <<>>
             /\ calls' = calls
             /\ simulated_profiles_with_votes_df'
                    = simulated_profiles_with_votes_df
             /\ (errors' # errors /\ errors' # {})
                    => "OpenAI client could not be initialized." \in errors' ]_vars

\* The button has been pressed without credential while the table of an
\* earlier run, which made oracle calls, is stored.
C18_Witness ==
    /\ ~api_key
    /\ "OpenAI client could not be initialized." \in errors
    /\ ClientErrors(api_key) \subseteq errors
    /\ run_pc = "idle"
    /\ simulated_profiles_with_votes_df # <<>>
    /\ calls > 0

\* C20: a prompt is built for every record of the profiles, whatever its
\* state string; it embeds the Block of the historical row of the uppercased
\* state when there is one and "an unknown political leaning" otherwise;
\* the records and the historical table are as they were.
C20_PromptBlock ==
    (run_pc = "running")
        => /\ DOMAIN profiles_to_simulate = DOMAIN voter_profiles_df
           /\ \A k \in DOMAIN voter_profiles_df :
                LET state == voter_profiles_df[k].STATE
                    prompt == profiles_to_simulate[k].Prompt
                IN  /\ state \in ProfileStates
                    /\ profiles_to_simulate[k].STATE = state
                    /\ prompt.STATE = state
                    /\ prompt.state_block =
                           IF \E st \in DOMAIN Hist : st = Upper(state)
                           THEN Hist[Upper(state)].Block
                           ELSE "an unknown political leaning"
                    /\ state \in {Ohio, OHIO} => prompt.state_block = "swing state"
           /\ real_election_data_df = Hist

\* A run whose prompts are built for a record of 'Ohio', a state the
\* historical table has under 'OHIO', and a record of 'Guam', which it does
\* not have.
C20_Witness ==
    /\ run_pc = "running"
    /\ Len(profiles_to_simulate) = 2
    /\ voter_profiles_df[1].STATE = Ohio
    /\ profiles_to_simulate[1].Prompt.state_block = "swing state"
    /\ profiles_to_simulate[2].Prompt.STATE = <<"G", "u", "a", "m">>
    /\ profiles_to_simulate[2].Prompt.state_block = "an unknown political leaning"

\* A complete result: one row for each loaded profile, in profile order, with
\* its prompt and a decision.
CompleteResult(t) ==
    /\ DOMAIN t = DOMAIN voter_profiles_df
    /\ \A k \in DOMAIN t :
         /\ t[k].STATE = voter_profiles_df[k].STATE
         /\ t[k].Prompt.STATE = voter_profiles_df[k].STATE
         /\ t[k].Vote \in {<<"1">>, <<"2">>, Undecided}

\* C21: the stored simulated table is None or a complete result in every
\* state; it is written only by the step that follows the last record of a
\* run, with the decisions of that run in profile order; a run that ends
\* between two records leaves it as it was.
C21_AtomicPublish ==
    /\ [](simulated_profiles_with_votes_df = <<>>
            \/ CompleteResult(simulated_profiles_with_votes_df))
    /\ [][ /\ run_pc' = "aborted"
               => simulated_profiles_with_votes_df'
                      = simulated_profiles_with_votes_df
           /\ simulated_profiles_with_votes_df' # simulated_profiles_with_votes_df
               => /\ run_pc = "running"
                  /\ Len(batch_votes) = Len(voter_profiles_df)
                  /\ \A k \in DOMAIN voter_profiles_df :
                       simulated_profiles_with_votes_df'[k].Vote = batch_votes[k]
         ]_vars

\* A second run has ended after its first record, whose decision differs
\* from the one of the stored result of the first run.
C21_Witness ==
    /\ run_pc = "aborted"
    /\ Len(profiles_to_simulate) = 2
    /\ Len(batch_votes) = 1
    /\ CompleteResult(simulated_profiles_with_votes_df)
    /\ simulated_profiles_with_votes_df[1].Vote # batch_votes[1]

(***************************************************************************)
(* Claims about the session over its pages                                 *)
(***************************************************************************)
\* C22: whenever the adjusted table is set, the weight stored with it is the
\* weight of the slider and the table is adjust_simulated_results of the
\* aggregated and the historical table for that weight; the rendering that
\* sets it first is one with the button pressed.
C22_AdjustedFollowsSlider ==
    /\ []( ("adjusted" \in done)
             => /\ last_simulation_weight = <<simulation_weight>>
                /\ adjusted_results_df =
                       [st \in DOMAIN aggregated_results_df |->
                           AdjustedRow(aggregated_results_df, Hist, st,
                                       simulation_weight)] )
    /\ [][ ("adjusted" \notin done /\ "adjusted" \in done')
              => calculate_pressed' ]_vars

\* The adjusted table has been computed again by a rendering without press,
\* for a slider moved away from its default.
C22_Witness ==
    /\ "adjusted" \in done
    /\ ~calculate_pressed
    /\ simulation_weight = 3
    /\ last_simulation_weight = <<3>>

\* C23: once set, the aggregated table and the comparison table are never
\* written again, whatever run replaces the stored simulated table; the
\* aggregated table is the aggregation of the simulated table stored when it
\* was first computed, the comparison is the comparison of that aggregated
\* table.
C23_WriteOnce ==
    /\ []( /\ ("aggregated" \in done)
                => aggregated_results_df = aggregate_results_by_state(processed_df)
           /\ ("compared" \in done)
                => comparison_df = compare_simulated_with_real(aggregated_results_df,
                                                               Hist) )
    /\ [][ /\ ("aggregated" \in done)
               => /\ "aggregated" \in done'
                  /\ aggregated_results_df' = aggregated_results_df
                  /\ processed_df' = processed_df
           /\ ("aggregated" \notin done /\ "aggregated" \in done')
               => aggregated_results_df' =
                      aggregate_results_by_state(
                          process_simulated_votes(simulated_profiles_with_votes_df))
           /\ ("compared" \in done)
               => /\ "compared" \in done'
                  /\ comparison_df' = comparison_df
         ]_vars

\* A second run has replaced the stored simulated table, and the aggregated
\* and the comparison table still show the winner of the first run.
C23_Witness ==
    /\ "compared" \in done
    /\ aggregated_results_df #
           aggregate_results_by_state(
               process_simulated_votes(simulated_profiles_with_votes_df))
    /\ simulated_profiles_with_votes_df[1].Vote = <<"2">>
    /\ \A st \in DOMAIN comparison_df :
         comparison_df[st].Winner_simulated = "Democrat"

====
